---- MODULE Spec2Model ----
(***************************************************************************)
(* Hooks of @c7/react (src/src/index.ts): the streaming subscription       *)
(* lifecycle of useStreamQuery and useMultiStreamQuery, useQuery, and the  *)
(* reloadTrigger of the DamlLedger provider.  One mounted hook instance is *)
(* modelled; `hook` says which of the hooks it is.  The ledger client      *)
(* (openStream = ledger.streamQuery / ledger.createMultiStream, and the    *)
(* Stream handle) is an external collaborator: its calls resolve or reject *)
(* at any later time and an open handle emits events at any time.          *)
(***************************************************************************)
EXTENDS Integers, Sequences, FiniteSets, TLC

VARIABLES
    context,              \* value of DamlLedgerContext where the hook renders: "null" or "ledger"
    reloadTrigger,        \* useState of the DamlLedger provider
    hook,                 \* "stream" (useStreamQuery), "multi" (useMultiStreamQuery) or "query" (useQuery)
    phase,                \* "threw" (the render raised), "rendered" (before the effects ran), "mounted", "unmounted"
    effectRun,            \* number of times the stream effect body has run (its dependency tuple)
    contracts,            \* useState of useQuery: the result list
    queries,              \* every ledger.query call of useQuery so far, in call order
    contractsMap,         \* useState: insertion-ordered Map contractId -> CreateEvent
    multiStream,          \* useState of useMultiStreamQuery: published handle or NULL
    loading,              \* useState
    connected,            \* useState
    error,                \* useState: "null", "setup" (string message) or the detail of an "error" event
    streamRef,            \* useRef: handle or NULL
    isCleanedUpRef,       \* useRef: boolean shared by all effect runs
    reconnectTimeoutRef,  \* useRef: timer id or NULL
    handles,              \* every openStream call so far, in call order
    timers,               \* every setTimeout call so far, in call order
    trace                 \* events applied so far (used by the view-fold specification only)

vars == <<context, reloadTrigger, hook, phase, effectRun, contracts, queries, contractsMap, multiStream, loading, connected, error,
          streamRef, isCleanedUpRef, reconnectTimeoutRef, handles, timers, trace>>

----------------------------------------------------------------------------
(* Bounds of the model *)

MaxHandles == 3
MaxStale == 1
MaxTrace == 4
MaxReloads == 2
MaxQueries == 3

(* Program constants *)

ReconnectDelayMs == 5000

NULL == 0

(* Contract ids and payloads of the events: the view-fold specification draws
   from ContractIds and Payloads, the lifecycle specification from the smaller
   LiveIds and LivePayloads *)
ContractIds == {"o1", "o2"}
Payloads == {"X", "Y"}
LiveIds == {"o1"}
LivePayloads == {"X"}
StreamStates == {"live", "connecting"}
Hooks == {"stream", "multi"}
AllHooks == Hooks \cup {"query"}
Contexts == {"null", "ledger"}

(* Results of ledger.query: lists of payloads *)
QueryResults == {<<"X">>, <<"Y">>}

(* Error details of the "error" events: the scenario specification draws from
   Causes, the lifecycle specification from the smaller LiveCauses *)
Causes == {"e1", "e2"}
LiveCauses == {"e1"}

----------------------------------------------------------------------------
(* The hook instance as one record, so that the handlers compose *)

Cur ==
    [context |-> context, reloadTrigger |-> reloadTrigger,
     hook |-> hook, phase |-> phase, effectRun |-> effectRun,
     contracts |-> contracts, queries |-> queries,
     contractsMap |-> contractsMap, multiStream |-> multiStream,
     loading |-> loading, connected |-> connected, error |-> error,
     streamRef |-> streamRef, isCleanedUpRef |-> isCleanedUpRef,
     reconnectTimeoutRef |-> reconnectTimeoutRef,
     handles |-> handles, timers |-> timers]

Become(s) ==
    /\ context' = s.context
    /\ reloadTrigger' = s.reloadTrigger
    /\ contracts' = s.contracts
    /\ queries' = s.queries
    /\ hook' = s.hook
    /\ phase' = s.phase
    /\ effectRun' = s.effectRun
    /\ contractsMap' = s.contractsMap
    /\ multiStream' = s.multiStream
    /\ loading' = s.loading
    /\ connected' = s.connected
    /\ error' = s.error
    /\ streamRef' = s.streamRef
    /\ isCleanedUpRef' = s.isCleanedUpRef
    /\ reconnectTimeoutRef' = s.reconnectTimeoutRef
    /\ handles' = s.handles
    /\ timers' = s.timers

Is(s) ==
    /\ context = s.context
    /\ reloadTrigger = s.reloadTrigger
    /\ contracts = s.contracts
    /\ queries = s.queries
    /\ hook = s.hook
    /\ phase = s.phase
    /\ effectRun = s.effectRun
    /\ contractsMap = s.contractsMap
    /\ multiStream = s.multiStream
    /\ loading = s.loading
    /\ connected = s.connected
    /\ error = s.error
    /\ streamRef = s.streamRef
    /\ isCleanedUpRef = s.isCleanedUpRef
    /\ reconnectTimeoutRef = s.reconnectTimeoutRef
    /\ handles = s.handles
    /\ timers = s.timers

InitialState(h) ==
    [context |-> "ledger", reloadTrigger |-> 0,
     hook |-> h, phase |-> "rendered", effectRun |-> 0,
     contracts |-> <<>>, queries |-> <<>>,
     contractsMap |-> <<>>, multiStream |-> NULL,
     loading |-> TRUE, connected |-> FALSE, error |-> "null",
     streamRef |-> NULL, isCleanedUpRef |-> FALSE, reconnectTimeoutRef |-> NULL,
     handles |-> <<>>, timers |-> <<>>]

(* A useDamlLedgerContext that returns the missing value instead of raising *)
UseDamlLedgerContextNoThrow(ctx) == [threw |-> FALSE, value |-> ctx]

(* useDamlLedgerContext: raises when no provider supplies a value *)
UseDamlLedgerContext(ctx) ==
    IF ctx = "null" THEN [threw |-> TRUE, value |-> "null"] ELSE [threw |-> FALSE, value |-> ctx]

(* The first render of the hook under context value ctx: when
   useDamlLedgerContext raises, no state, ref or effect of the hook exists *)
Render(h, ctx) ==
    IF UseDamlLedgerContext(ctx).threw
    THEN [InitialState(h) EXCEPT !.context = ctx, !.phase = "threw"]
    ELSE [InitialState(h) EXCEPT !.context = UseDamlLedgerContext(ctx).value]

(* The values the state and the refs hold *)
TypeOK ==
    /\ context \in Contexts
    /\ reloadTrigger \in 0..MaxReloads
    /\ hook \in AllHooks
    /\ contracts \in QueryResults \cup {<<>>}
    /\ Len(queries) <= MaxQueries
    /\ \A q \in 1..Len(queries) :
          /\ queries[q].status \in {"pending", "resolved", "rejected"}
          /\ queries[q].result \in QueryResults \cup {<<>>}
    /\ phase \in {"threw", "rendered", "mounted", "unmounted"}
    /\ effectRun \in 0..MaxHandles
    /\ \A i \in 1..Len(contractsMap) :
          /\ contractsMap[i].contractId \in ContractIds
          /\ contractsMap[i].payload \in Payloads
          /\ contractsMap[i].stream \in 1..Len(handles)
    /\ multiStream \in 0..Len(handles)
    /\ loading \in BOOLEAN
    /\ connected \in BOOLEAN
    /\ error \in {"null", "setup", "query"} \cup Causes
    /\ streamRef \in 0..Len(handles)
    /\ isCleanedUpRef \in BOOLEAN
    /\ reconnectTimeoutRef \in 0..Len(timers)
    /\ Len(handles) <= MaxHandles
    /\ \A h \in 1..Len(handles) :
          /\ handles[h].run \in 1..effectRun
          /\ handles[h].via \in {"effect", "timer"}
          /\ handles[h].status \in {"pending", "rejected", "started", "closed"}
          /\ handles[h].closes \in 0..1
          /\ handles[h].stale \in 0..MaxStale
          /\ handles[h].delivered \in BOOLEAN
          /\ handles[h].live \in BOOLEAN
    /\ \A t \in 1..Len(timers) :
          /\ timers[t].run \in 1..effectRun
          /\ timers[t].status \in {"pending", "fired", "cleared"}
          /\ timers[t].delay = ReconnectDelayMs
    /\ Len(trace) <= MaxTrace

----------------------------------------------------------------------------
(* React state setters: a set-state call of an unmounted component is dropped *)

SetLoading(s, v) == IF s.phase = "unmounted" THEN s ELSE [s EXCEPT !.loading = v]
SetConnected(s, v) == IF s.phase = "unmounted" THEN s ELSE [s EXCEPT !.connected = v]
SetError(s, v) == IF s.phase = "unmounted" THEN s ELSE [s EXCEPT !.error = v]
SetContractsMap(s, v) == IF s.phase = "unmounted" THEN s ELSE [s EXCEPT !.contractsMap = v]
SetMultiStream(s, v) == IF s.phase = "unmounted" THEN s ELSE [s EXCEPT !.multiStream = v]
SetContracts(s, v) == IF s.phase = "unmounted" THEN s ELSE [s EXCEPT !.contracts = v]

----------------------------------------------------------------------------
(* The JavaScript Map behind contractsMap: a sequence of entries in insertion order *)

MapKeys(m) == {m[i].contractId : i \in 1..Len(m)}

MapIndex(m, k) == CHOOSE i \in 1..Len(m) : m[i].contractId = k

(* A set that moves an id already present to the end of the iteration order *)
MapSetMoveToEnd(m, k, v) == Append(SelectSeq(m, LAMBDA e : e.contractId # k), v)

MapSet(m, k, v) ==
    IF k \in MapKeys(m) THEN [m EXCEPT ![MapIndex(m, k)] = v] ELSE Append(m, v)

MapDelete(m, k) == SelectSeq(m, LAMBDA e : e.contractId # k)

MapGet(m, k) == m[MapIndex(m, k)]

(* The CreateEvent stored for an addition event *)
CreateEventOf(ev) == [contractId |-> ev.contractId, payload |-> ev.payload, stream |-> ev.stream]

----------------------------------------------------------------------------
(* Events of a handle.  Unused fields hold "-" *)

CreateEv(h, c, p) ==
    [stream |-> h, type |-> "create", contractId |-> c, payload |-> p, state |-> "-", cause |-> "-"]
ArchiveEv(h, c) ==
    [stream |-> h, type |-> "archive", contractId |-> c, payload |-> "-", state |-> "-", cause |-> "-"]
StateEv(h, st) ==
    [stream |-> h, type |-> "state", contractId |-> "-", payload |-> "-", state |-> st, cause |-> "-"]
ErrorEv(h, c) ==
    [stream |-> h, type |-> "error", contractId |-> "-", payload |-> "-", state |-> "-", cause |-> c]

DataEvents(h, ids, payloads) ==
    {CreateEv(h, c, p) : c \in ids, p \in payloads} \cup {ArchiveEv(h, c) : c \in ids}

StatusEvents(h, causes) == {StateEv(h, st) : st \in StreamStates} \cup {ErrorEv(h, c) : c \in causes}

(* What the hook has a listener for: useMultiStreamQuery registers onState and onError only *)
ListenedEvents(k, h) ==
    IF k = "stream"
    THEN DataEvents(h, LiveIds, LivePayloads) \cup StatusEvents(h, LiveCauses)
    ELSE StatusEvents(h, LiveCauses)

----------------------------------------------------------------------------
(* The listeners registered on a handle by setupStream *)

(* A create listener that appends without looking for the key *)
OnCreateAppend(s, ev) ==
    SetContractsMap(s, Append(s.contractsMap, CreateEventOf(ev)))

OnCreate(s, ev) ==
    SetContractsMap(s, MapSet(s.contractsMap, ev.contractId, CreateEventOf(ev)))

(* An archive listener that empties the view *)
OnArchiveClear(s, ev) == SetContractsMap(s, <<>>)

(* An archive listener that leaves the view as it is *)
OnArchiveNoop(s, ev) == s

OnArchive(s, ev) ==
    SetContractsMap(s, MapDelete(s.contractsMap, ev.contractId))

(* An error listener that keeps the first error detail it surfaced *)
OnErrorKeepFirst(s, ev) ==
    SetConnected(IF s.error = "null" THEN SetError(s, ev.cause) ELSE s, FALSE)

OnError(s, ev) ==
    SetConnected(SetError(s, ev.cause), FALSE)

(* A state listener that does not clear loading on "live" *)
OnStateKeepLoading(s, ev) == SetConnected(s, ev.state = "live")

OnState(s, ev) ==
    LET s1 == SetConnected(s, ev.state = "live")
    IN  IF ev.state = "live" THEN SetLoading(s1, FALSE) ELSE s1

Listener(s, ev) ==
    CASE ev.type = "create"  -> OnCreate(s, ev)
      [] ev.type = "archive" -> OnArchive(s, ev)
      [] ev.type = "error"   -> OnError(s, ev)
      [] ev.type = "state"   -> OnState(s, ev)

----------------------------------------------------------------------------
(* reload, as returned by the hook *)

Reload(s) ==
    LET s1 == SetError(SetLoading(s, TRUE), "null")
    IN  IF s.hook = "stream" THEN SetContractsMap(s1, <<>>) ELSE SetMultiStream(s1, NULL)

(* A reload effect that never calls reload *)
ReloadEffectSkip(s) == s

(* The reload effect of the streaming hooks: it runs at mount and whenever
   reloadTrigger changes, and calls reload unless reloadTrigger is 0 *)
ReloadEffect(s) == IF s.reloadTrigger > 0 THEN Reload(s) ELSE s

----------------------------------------------------------------------------
(* useQuery *)

NewQuery == [status |-> "pending", result |-> <<>>]

(* reload of useQuery, from its start to the await of ledger.query *)
QueryReload(s) ==
    LET s1 == SetError(SetLoading(s, TRUE), "null")
    IN  [s1 EXCEPT !.queries = Append(@, NewQuery)]

(* reload after the await: the query q resolved with result res *)
QueryResolved(s, q, res) ==
    LET s1 == [s EXCEPT !.queries[q] = [status |-> "resolved", result |-> res]]
    IN  SetLoading(SetContracts(s1, res), FALSE)

(* reload's catch and finally blocks: the query q rejected *)
QueryRejected(s, q) ==
    LET s1 == [s EXCEPT !.queries[q].status = "rejected"]
    IN  SetLoading(SetContracts(SetError(s1, "query"), <<>>), FALSE)

----------------------------------------------------------------------------
(* The stream effect *)

NewHandle(r, v) == [run |-> r, via |-> v, status |-> "pending", closes |-> 0, stale |-> 0, delivered |-> FALSE, live |-> FALSE]

NewTimer(r) == [run |-> r, status |-> "pending", delay |-> ReconnectDelayMs]

(* setupStream of effect run r, from its start to the await of openStream *)
SetupStream(s, r, v) ==
    IF s.isCleanedUpRef THEN s
    ELSE LET s1 == SetError(SetLoading(s, TRUE), "null")
         IN  [s1 EXCEPT !.handles = Append(@, NewHandle(r, v))]

(* setupStream after the await: openStream resolved with handle h *)
SetupResolved(s, h) ==
    LET s1 == [s EXCEPT !.streamRef = h]
        s2 == IF s.hook = "multi" THEN SetMultiStream(s1, h) ELSE s1
    IN  [s2 EXCEPT !.handles[h].status = "started"]

(* A catch block that leaves loading as it is *)
SetupFailedKeepLoading(s, h) ==
    LET s1 == [s EXCEPT !.handles[h].status = "rejected"]
        s2 == SetConnected(SetError(s1, "setup"), FALSE)
    IN  IF ~s2.isCleanedUpRef
        THEN [s2 EXCEPT !.timers = Append(@, NewTimer(s.handles[h].run)),
                        !.reconnectTimeoutRef = Len(s.timers) + 1]
        ELSE s2

(* setupStream's catch block: the openStream call h rejected *)
SetupFailed(s, h) ==
    LET s1 == [s EXCEPT !.handles[h].status = "rejected"]
        s2 == SetLoading(SetConnected(SetError(s1, "setup"), FALSE), FALSE)
    IN  IF ~s2.isCleanedUpRef
        THEN [s2 EXCEPT !.timers = Append(@, NewTimer(s.handles[h].run)),
                        !.reconnectTimeoutRef = Len(s.timers) + 1]
        ELSE s2

(* clearTimeout: cancels a pending timer, does nothing to one that fired *)
ClearTimeout(ts, t) ==
    IF ts[t].status = "pending" THEN [ts EXCEPT ![t].status = "cleared"] ELSE ts

(* Stream.close *)
Close(hs, h) == [hs EXCEPT ![h].status = "closed", ![h].closes = @ + 1]

(* The function returned by the stream effect *)
Cleanup(s) ==
    LET s1 == [s EXCEPT !.isCleanedUpRef = TRUE]
        s2 == IF s1.reconnectTimeoutRef # NULL
              THEN [s1 EXCEPT !.timers = ClearTimeout(@, s1.reconnectTimeoutRef),
                              !.reconnectTimeoutRef = NULL]
              ELSE s1
        s3 == IF s2.streamRef # NULL
              THEN [s2 EXCEPT !.handles = Close(@, s2.streamRef), !.streamRef = NULL]
              ELSE s2
        s4 == SetConnected(s3, FALSE)
    IN  IF s.hook = "multi" THEN SetMultiStream(s4, NULL) ELSE s4

(* The body of the stream effect: a new run with its own dependency tuple *)
EffectBody(s) ==
    LET r == s.effectRun + 1
        s1 == [s EXCEPT !.effectRun = r, !.isCleanedUpRef = FALSE]
    IN  SetupStream(s1, r, "effect")

----------------------------------------------------------------------------
(* Actions *)

(* The effects of the first commit, in declaration order: useQuery has one
   effect that calls reload; the streaming hooks have the stream effect and
   then the reload effect *)
MountEffects(s) ==
    IF s.hook = "query" THEN QueryReload(s) ELSE ReloadEffect(EffectBody(s))

(* The DamlLedger provider commits a new reloadTrigger: the ledger memoized on
   it is a new one, so a mounted streaming hook runs the cleanup and the body
   of its stream effect and then its reload effect; a mounted useQuery runs
   its effect, which calls reload *)
ProviderReload(s) ==
    LET s1 == [s EXCEPT !.reloadTrigger = @ + 1]
    IN  IF s.phase # "mounted" THEN s1
        ELSE IF s.hook = "query" THEN QueryReload(s1)
        ELSE ReloadEffect(EffectBody(Cleanup(s1)))

(* First commit: the effects run *)
Mount ==
    /\ phase = "rendered"
    /\ Become(MountEffects([Cur EXCEPT !.phase = "mounted"]))
    /\ UNCHANGED trace

(* A dependency of the stream effect changed (descriptor or ledger): React runs
   the previous run's cleanup and then the effect body, in one commit *)
Restart ==
    /\ phase = "mounted"
    /\ Len(handles) < MaxHandles
    /\ Become(EffectBody(Cleanup(Cur)))
    /\ UNCHANGED trace

(* The consumer unmounts: React runs the cleanup *)
Unmount ==
    /\ phase = "mounted"
    /\ Become([(IF hook = "query" THEN Cur ELSE Cleanup(Cur)) EXCEPT !.phase = "unmounted"])
    /\ UNCHANGED trace

(* The consumer calls the hook's reload *)
ReloadCall ==
    /\ phase = "mounted"
    /\ Become(Reload(Cur))
    /\ UNCHANGED trace

(* A consumer calls triggerReload of the provider (useReload) *)
TriggerReload ==
    /\ context = "ledger"
    /\ reloadTrigger < MaxReloads
    /\ phase = "mounted" => IF hook = "query" THEN Len(queries) < MaxQueries
                                              ELSE Len(handles) < MaxHandles
    /\ Become(ProviderReload(Cur))
    /\ UNCHANGED trace

(* The consumer calls the reload function returned by useQuery *)
QueryReloadCall ==
    /\ hook = "query"
    /\ phase = "mounted"
    /\ Len(queries) < MaxQueries
    /\ Become(QueryReload(Cur))
    /\ UNCHANGED trace

(* The ledger.query call q resolves with result res *)
QueryResolves(q, res) ==
    /\ queries[q].status = "pending"
    /\ Become(QueryResolved(Cur, q, res))
    /\ UNCHANGED trace

(* The ledger.query call q rejects *)
QueryRejects(q) ==
    /\ queries[q].status = "pending"
    /\ Become(QueryRejected(Cur, q))
    /\ UNCHANGED trace

(* The openStream call h resolves *)
OpenResolves(h) ==
    /\ handles[h].status = "pending"
    /\ Become(SetupResolved(Cur, h))
    /\ UNCHANGED trace

(* The openStream call h rejects *)
OpenRejects(h) ==
    /\ handles[h].status = "pending"
    /\ Become(SetupFailed(Cur, h))
    /\ UNCHANGED trace

(* The reconnect timer t fires and calls setupStream of the run that set it *)
TimerFires(t) ==
    /\ timers[t].status = "pending"
    /\ isCleanedUpRef \/ Len(handles) < MaxHandles
    /\ Become(SetupStream([Cur EXCEPT !.timers[t].status = "fired"], timers[t].run, "timer"))
    /\ UNCHANGED trace

(* The handle h has emitted ev.  For a multi-stream, live records what its
   kinds report: the handle says "live" when every kind is live, and another
   state or an error when one is not *)
Emitted(s, h, ev) ==
    [s EXCEPT !.handles[h].delivered = TRUE,
              !.handles[h].live = IF s.hook = "multi" THEN ev.state = "live" ELSE @]

(* The started handle h emits event ev and its listener runs *)
HandleEvent(h, ev) ==
    /\ handles[h].status = "started"
    /\ Become(Listener(Emitted(Cur, h, ev), ev))
    /\ UNCHANGED trace

(* An event ev of handle h that was in flight when h was closed reaches its
   listener: close() does not take back what the handle already emitted *)
StaleEvent(h, ev) ==
    /\ handles[h].status = "closed"
    /\ handles[h].stale < MaxStale
    /\ Become(Listener(Emitted([Cur EXCEPT !.handles[h].stale = @ + 1], h, ev), ev))
    /\ UNCHANGED trace

Init ==
    /\ \E h \in Hooks : \E ctx \in Contexts : Is(Render(h, ctx))
    /\ trace = <<>>

Next ==
    \/ Mount
    \/ Restart
    \/ Unmount
    \/ ReloadCall
    \/ \E h \in 1..Len(handles) : OpenResolves(h)
    \/ \E h \in 1..Len(handles) : OpenRejects(h)
    \/ \E t \in 1..Len(timers) : TimerFires(t)
    \/ \E h \in 1..Len(handles) : \E ev \in ListenedEvents(hook, h) : HandleEvent(h, ev)
    \/ \E h \in 1..Len(handles) : \E ev \in ListenedEvents(hook, h) : StaleEvent(h, ev)

Spec == Init /\ [][Next]_vars

----------------------------------------------------------------------------
(* The view fold on its own: a mounted useStreamQuery whose first openStream
   call resolved, and then only create and archive events of that handle,
   recorded in trace *)

InitFold ==
    /\ Is(SetupResolved(EffectBody([InitialState("stream") EXCEPT !.phase = "mounted"]), 1))
    /\ trace = <<>>

ApplyEvent(ev) ==
    /\ Len(trace) < MaxTrace
    /\ handles[ev.stream].status = "started"
    /\ Become(Listener(Emitted(Cur, ev.stream, ev), ev))
    /\ trace' = Append(trace, ev)

NextFold == \E ev \in DataEvents(streamRef, ContractIds, Payloads) : ApplyEvent(ev)

SpecFold == InitFold /\ [][NextFold]_vars

----------------------------------------------------------------------------
(* One subscription and one handle: the hook mounts, its openStream call
   resolves, and the handle emits any events, recorded in trace *)

InitScenario ==
    /\ \E h \in Hooks : Is(InitialState(h))
    /\ trace = <<>>

ScenarioEvents(k, h) ==
    IF k = "stream"
    THEN DataEvents(h, ContractIds, Payloads) \cup StatusEvents(h, Causes)
    ELSE StatusEvents(h, Causes)

NextScenario ==
    \/ Mount
    \/ \E h \in 1..Len(handles) : OpenResolves(h)
    \/ /\ streamRef # NULL
       /\ \E ev \in ScenarioEvents(hook, streamRef) : ApplyEvent(ev)

SpecScenario == InitScenario /\ [][NextScenario]_vars

----------------------------------------------------------------------------
(* The hooks under a provider whose triggerReload is called: useQuery with its
   outstanding queries, and the streaming hooks with handles that resolve and
   emit *)

InitProvider ==
    /\ \E h \in AllHooks : Is(InitialState(h))
    /\ trace = <<>>

NextProvider ==
    \/ Mount
    \/ Unmount
    \/ TriggerReload
    \/ QueryReloadCall
    \/ \E q \in 1..Len(queries) : \E res \in QueryResults : QueryResolves(q, res)
    \/ \E q \in 1..Len(queries) : QueryRejects(q)
    \/ \E h \in 1..Len(handles) : OpenResolves(h)
    \/ \E h \in 1..Len(handles) : OpenRejects(h)
    \/ \E h \in 1..Len(handles) : \E ev \in ListenedEvents(hook, h) : HandleEvent(h, ev)

SpecProvider == InitProvider /\ [][NextProvider]_vars

----------------------------------------------------------------------------
(* A subscription that is never torn down: the hook mounts and stays mounted
   with the same dependencies; openStream calls resolve or reject, reconnect
   timers fire, the consumer may call reload, and the current handle emits
   status events, recorded in trace.  React runs the effect of a committed
   render, a promise settles, and a timer that is not cleared fires; nothing
   obliges the consumer to call reload or the handle to emit *)

NextLive ==
    \/ Mount
    \/ ReloadCall
    \/ \E h \in 1..Len(handles) : OpenResolves(h)
    \/ \E h \in 1..Len(handles) : OpenRejects(h)
    \/ \E t \in 1..Len(timers) : TimerFires(t)
    \/ /\ streamRef # NULL
       /\ \E ev \in StatusEvents(streamRef, LiveCauses) : ApplyEvent(ev)

FairLive ==
    /\ WF_vars(Mount)
    /\ WF_vars(\E h \in 1..Len(handles) : OpenResolves(h) \/ OpenRejects(h))
    /\ WF_vars(\E t \in 1..Len(timers) : TimerFires(t))

SpecLive == InitScenario /\ [][NextLive]_vars /\ FairLive

----------------------------------------------------------------------------
(* Notions the properties use *)

Handles == 1..Len(handles)
Timers == 1..Len(timers)

(* The effect run r has been cleaned up: replaced by a later run, or unmounted *)
TornDown(r) == r < effectRun \/ (r = effectRun /\ phase = "unmounted")

(* The handle h was requested by a run that a later run has replaced *)
Superseded(h) == handles[h].run < effectRun

PendingHandles == {h \in Handles : handles[h].status = "pending"}
PendingTimers == {t \in Timers : timers[t].status = "pending"}

(* Index of the last event of tr about contract id k, 0 when there is none *)
LastIndex(tr, k) ==
    LET about == {i \in 1..Len(tr) : tr[i].contractId = k}
    IN  IF about = {} THEN 0 ELSE CHOOSE i \in about : \A j \in about : j <= i

(* The ids created in tr and not archived afterwards *)
(* Index of the create event of tr that put contract id k into the view: the
   first create of k after the last archive of k; 0 when there is none *)
InsertIndex(tr, k) ==
    LET archives == {i \in 1..Len(tr) : tr[i].contractId = k /\ tr[i].type = "archive"}
        inserts == {i \in 1..Len(tr) : /\ tr[i].contractId = k
                                       /\ tr[i].type = "create"
                                       /\ \A j \in archives : j < i}
    IN  IF inserts = {} THEN 0 ELSE CHOOSE i \in inserts : \A j \in inserts : i <= j

CreatedNotArchived(tr) ==
    {k \in ContractIds : LastIndex(tr, k) # 0 /\ tr[LastIndex(tr, k)].type = "create"}

----------------------------------------------------------------------------
(* C4: for every sequence of create and archive events of the current handle
   applied to an empty contractsMap, the keys of contractsMap are exactly the
   ids created and not archived afterwards, each entry holds the payload of the
   last create event of its id, and no key occurs twice. *)
C4_FoldIsCreatedMinusArchived ==
    /\ MapKeys(contractsMap) = CreatedNotArchived(trace)
    /\ \A i \in 1..Len(contractsMap) :
          contractsMap[i].payload = trace[LastIndex(trace, contractsMap[i].contractId)].payload
    /\ \A i, j \in 1..Len(contractsMap) :
          contractsMap[i].contractId = contractsMap[j].contractId => i = j

(* C4 witness: o1 created, overwritten with another payload, o2 created and
   archived; the view holds o1 with the later payload only *)
C4_Witness ==
    /\ Len(trace) = 4
    /\ trace[1].type = "create" /\ trace[1].contractId = "o1" /\ trace[1].payload = "X"
    /\ trace[2].type = "create" /\ trace[2].contractId = "o2"
    /\ trace[3].type = "create" /\ trace[3].contractId = "o1" /\ trace[3].payload = "Y"
    /\ trace[4].type = "archive" /\ trace[4].contractId = "o2"
    /\ Len(contractsMap) = 1
    /\ contractsMap[1].contractId = "o1" /\ contractsMap[1].payload = "Y"

----------------------------------------------------------------------------
(* C1: in useStreamQuery a create or archive event of a superseded handle (one
   requested by an effect run that has been cleaned up and replaced by a new
   run) never changes contractsMap, whether the handle is still open or was
   closed with the event in flight. *)
C1_SupersededEventKeepsView ==
    [][\A h \in Handles : \A ev \in DataEvents(h, LiveIds, LivePayloads) :
          (hook = "stream" /\ Superseded(h) /\ (HandleEvent(h, ev) \/ StaleEvent(h, ev)))
              => contractsMap' = contractsMap]_vars

(* C2: once a subscription is torn down and no setup step is pending (no
   openStream call awaits its result, no reconnect timer is set), no handle it
   opened is started and not closed. *)
C2_NoLeakedHandle ==
    (PendingHandles = {} /\ PendingTimers = {})
        => \A h \in Handles : TornDown(handles[h].run) => handles[h].status # "started"

(* C3: in useStreamQuery, after the cleanup closed a handle, an event of that
   handle that was in flight changes none of contractsMap, connected, loading
   and error. *)
C3_ClosedHandleEventIgnored ==
    [][\A h \in Handles : \A ev \in ListenedEvents(hook, h) :
          (hook = "stream" /\ StaleEvent(h, ev))
              => /\ contractsMap' = contractsMap
                 /\ connected' = connected
                 /\ loading' = loading
                 /\ error' = error]_vars

(* C5: when an openStream call of a run that is not torn down rejects, exactly
   one reconnect timer with the 5 second delay is set for that run and nothing
   else is started; when that timer fires exactly one new openStream call is
   made; and contractsMap is empty when the first event of a handle obtained by
   such a reconnect attempt is applied. *)
C5_OneReconnectFreshView ==
    [][/\ \A h \in Handles :
             (OpenRejects(h) /\ ~TornDown(handles[h].run))
                 => /\ timers' = Append(timers, [run |-> handles[h].run, status |-> "pending",
                                                 delay |-> ReconnectDelayMs])
                    /\ Len(handles') = Len(handles)
       /\ \A t \in Timers :
             (TimerFires(t) /\ ~TornDown(timers[t].run))
                 => /\ Len(handles') = Len(handles) + 1
                    /\ handles'[Len(handles')].status = "pending"
                    /\ handles'[Len(handles')].run = timers[t].run
       /\ \A h \in Handles : \A ev \in ListenedEvents(hook, h) :
             (/\ HandleEvent(h, ev)
              /\ handles[h].via = "timer"
              /\ ~handles[h].delivered
              /\ ~TornDown(handles[h].run))
                 => contractsMap = <<>>]_vars

(* C6: when the current handle of a connected (live) subscription emits
   "error", the subscription shows error non-null and connected = false, and a
   reconnect is triggered: a reconnect timer or an openStream call of the
   current run is pending after the event. *)
C6_StreamErrorTriggersReconnect ==
    [][\A h \in Handles :
          (/\ \E c \in LiveCauses : HandleEvent(h, ErrorEv(h, c))
           /\ h = streamRef
           /\ connected
           /\ ~TornDown(handles[h].run))
              => /\ error' # "null"
                 /\ ~connected'
                 /\ \/ \E t \in 1..Len(timers') :
                          timers'[t].status = "pending" /\ timers'[t].run = effectRun'
                    \/ \E g \in 1..Len(handles') :
                          handles'[g].status = "pending" /\ handles'[g].run = effectRun']_vars

(* C7: in every state, running the cleanup closes the held handle, leaves no
   reconnect timer pending and leaves connected = false; running it once more
   changes nothing and closes no handle a second time. *)
C7_StopIdempotentTotal ==
    LET c1 == Cleanup(Cur)
        c2 == Cleanup(c1)
    IN  /\ streamRef # NULL => c1.handles[streamRef].status = "closed"
        /\ \A t \in Timers : c1.timers[t].status # "pending"
        /\ c1.connected = FALSE
        /\ c2 = c1
        /\ \A h \in Handles : c2.handles[h].closes <= 1

(* C8: after every step at most one setup attempt is outstanding (a pending
   openStream call or a pending reconnect timer), and a step that makes an
   openStream call or sets a reconnect timer does so for a run that is not
   torn down. *)
C8_SetupSerialized ==
    [][/\ Cardinality(PendingHandles') + Cardinality(PendingTimers') <= 1
       /\ Len(handles') > Len(handles)
             => LET r == handles'[Len(handles')].run
                IN  ~(r < effectRun' \/ (r = effectRun' /\ phase' = "unmounted"))
       /\ Len(timers') > Len(timers)
             => LET r == timers'[Len(timers')].run
                IN  ~(r < effectRun' \/ (r = effectRun' /\ phase' = "unmounted"))]_vars

(* C9: the hook's reload is stop followed by start: it closes every started
   handle, makes one new openStream call, empties the view and sets loading. *)
C9_ReloadRestartsStream ==
    [][ReloadCall
          => /\ \A h \in Handles : handles[h].status = "started" => handles'[h].status = "closed"
             /\ Len(handles') = Len(handles) + 1
             /\ handles'[Len(handles')].status = "pending"
             /\ hook = "stream" => contractsMap' = <<>>
             /\ loading']_vars

(* C10: a dependency change of a running useStreamQuery performs the stop/start
   cycle: it closes the started handle, requests a handle for the new run and
   recreates the view empty, so that no entry added by the old handle is in
   contractsMap after the change. *)
C10_DescriptorChangeResetsView ==
    [][(hook = "stream" /\ Restart)
          => /\ \A h \in Handles : handles[h].status = "started" => handles'[h].status = "closed"
             /\ Len(handles') = Len(handles) + 1
             /\ handles'[Len(handles')].run = effectRun'
             /\ \A i \in 1..Len(contractsMap') :
                   handles'[contractsMap'[i].stream].run = effectRun'
             /\ contractsMap' = <<>>]_vars

----------------------------------------------------------------------------
(* C11: the published fields never show two statuses at once: connected = true
   never holds together with a non-null error, nor together with
   loading = true. *)
C11_OneStatus ==
    /\ ~(connected /\ error # "null")
    /\ ~(connected /\ loading)

(* C12: when the current handle of a mounted subscription emits a state event,
   "live" gives connected = true and loading = false, any other value gives
   connected = false and leaves loading as it was, and the view (contractsMap,
   published multiStream) is unchanged. *)
C12_StateEventSetsStatus ==
    [][\A h \in Handles : \A st \in StreamStates :
          (HandleEvent(h, StateEv(h, st)) /\ h = streamRef /\ phase = "mounted")
              => /\ st = "live" => (connected' /\ ~loading')
                 /\ st # "live" => (~connected' /\ loading' = loading)
                 /\ contractsMap' = contractsMap
                 /\ multiStream' = multiStream]_vars

(* C12 witness: the current handle has reported and the subscription is
   connected and no longer loading *)
C12_Witness ==
    /\ phase = "mounted"
    /\ streamRef # NULL
    /\ handles[streamRef].status = "started"
    /\ handles[streamRef].delivered
    /\ connected
    /\ ~loading

(* C13: the scenario of one useStreamQuery subscription: after subscribing the
   view is empty, loading = true, connected = false, error = null; after state
   "live" connected = true, loading = false, view empty; after create(o1, X)
   the view is exactly {o1: X}; after archive(o1) the view is empty. *)
C13_Scenario ==
    hook = "stream" =>
        /\ (phase = "mounted" /\ trace = <<>>)
              => (contractsMap = <<>> /\ loading /\ ~connected /\ error = "null")
        /\ trace = <<StateEv(1, "live")>>
              => (connected /\ ~loading /\ contractsMap = <<>>)
        /\ trace = <<StateEv(1, "live"), CreateEv(1, "o1", "X")>>
              => (/\ connected /\ ~loading
                  /\ Len(contractsMap) = 1
                  /\ contractsMap[1].contractId = "o1"
                  /\ contractsMap[1].payload = "X")
        /\ trace = <<StateEv(1, "live"), CreateEv(1, "o1", "X"), ArchiveEv(1, "o1")>>
              => (connected /\ ~loading /\ contractsMap = <<>>)

(* C13 witness: the end of the scenario *)
C13_Witness ==
    /\ hook = "stream"
    /\ trace = <<StateEv(1, "live"), CreateEv(1, "o1", "X"), ArchiveEv(1, "o1")>>
    /\ contractsMap = <<>>
    /\ connected

(* C14: when an openStream call of a mounted subscription rejects, the
   component stays mounted and shows error non-null, connected = false and
   loading = false, with the view unchanged, at every failure. *)
C14_SetupFailureSurfaced ==
    [][\A h \in Handles :
          (OpenRejects(h) /\ phase = "mounted")
              => /\ phase' = "mounted"
                 /\ error' # "null"
                 /\ ~connected'
                 /\ ~loading'
                 /\ contractsMap' = contractsMap
                 /\ multiStream' = multiStream]_vars

(* C14 witness: three consecutive failed setup attempts of one run, surfaced *)
C14_Witness ==
    /\ phase = "mounted"
    /\ Len(handles) = 3
    /\ \A h \in Handles : handles[h].status = "rejected" /\ handles[h].run = 1
    /\ error = "setup"
    /\ ~connected
    /\ ~loading

(* C15: a multi-kind subscription shows connected = true only when every kind
   of its current mapping reports "live", i.e. only when the handle of the
   current run is started and its last report was "live"; and an error event
   of that handle gives connected = false and error non-null in that step. *)
C15_LiveOnlyWhenEveryKindLive ==
    /\ [](( hook = "multi" /\ phase = "mounted" /\ connected)
            => \E h \in Handles : /\ handles[h].run = effectRun
                                  /\ handles[h].status = "started"
                                  /\ handles[h].live)
    /\ [][\A h \in Handles : \A c \in LiveCauses :
             (hook = "multi" /\ phase = "mounted" /\ HandleEvent(h, ErrorEv(h, c)))
                 => (~connected' /\ error' # "null")]_vars

(* C16 as stated: once a multi-kind subscription shows an error detail, a
   later error event of the same multi-stream handle does not replace it. *)
C16_FirstErrorKept ==
    [][streamRef # NULL =>
          \A c \in Causes :
             (hook = "multi" /\ error \in Causes /\ ApplyEvent(ErrorEv(streamRef, c)))
                 => error' = error]_vars

(* C16 amended: the error detail a multi-kind subscription shows after an error
   event of its handle is the cause of that event, whatever was shown before;
   connected becomes false. *)
C16_LastErrorShown ==
    [][streamRef # NULL =>
          \A c \in Causes :
             (hook = "multi" /\ ApplyEvent(ErrorEv(streamRef, c)))
                 => (error' = c /\ ~connected')]_vars

(* C16 witness: two error events with different causes, the second one shown *)
C16_Witness ==
    /\ hook = "multi"
    /\ Len(trace) = 2
    /\ trace[1] = ErrorEv(1, "e1")
    /\ trace[2] = ErrorEv(1, "e2")
    /\ error = "e2"
    /\ ~connected

(* C17: a change of the mapping of a running multi-kind subscription closes the
   existing multi-stream handle, publishes multiStream = null and requests a
   new handle for the new mapping; and after a stop no handle of the
   subscription is open. *)
C17_MappingChangeFullRestart ==
    /\ [][(hook = "multi" /\ Restart)
             => /\ \A h \in Handles :
                      handles[h].status = "started" => handles'[h].status = "closed"
                /\ multiStream' = NULL
                /\ Len(handles') = Len(handles) + 1
                /\ handles'[Len(handles')].status = "pending"
                /\ handles'[Len(handles')].run = effectRun']_vars
    /\ []((hook = "multi" /\ phase = "unmounted")
            => \A h \in Handles : handles[h].status # "started")

(* C19: with no DamlLedger provider value the hook call raises at the call
   site, no stream is requested and no retry is scheduled; with a provider
   value present useDamlLedgerContext returns that value and does not raise. *)
C19_MissingProviderRaises ==
    /\ context = "null" => (phase = "threw" /\ handles = <<>> /\ timers = <<>>
                            /\ streamRef = NULL /\ reconnectTimeoutRef = NULL)
    /\ context # "null" => phase # "threw"
    /\ UseDamlLedgerContext("null").threw
    /\ \A ctx \in Contexts \ {"null"} :
          UseDamlLedgerContext(ctx) = [threw |-> FALSE, value |-> ctx]

(* C19 witness: a hook called without a provider value has raised *)
C19_Witness ==
    /\ context = "null"
    /\ phase = "threw"
    /\ handles = <<>>

(* C20: a create event for an id already in the view replaces its value and
   keeps the position of every id; and the iteration order of the view is the
   order in which the create events that put the present ids into the view
   arrived, whatever archives of other ids came between them. *)
C20_InsertionOrderKept ==
    /\ [][\A ev \in DataEvents(streamRef, ContractIds, Payloads) :
             (/\ ev.type = "create"
              /\ ev.contractId \in MapKeys(contractsMap)
              /\ ApplyEvent(ev))
                 => /\ Len(contractsMap') = Len(contractsMap)
                    /\ \A i \in 1..Len(contractsMap) :
                          contractsMap'[i] = IF contractsMap[i].contractId = ev.contractId
                                             THEN CreateEventOf(ev)
                                             ELSE contractsMap[i]]_vars
    /\ [](\A i, j \in 1..Len(contractsMap) :
             i < j <=> /\ InsertIndex(trace, contractsMap[i].contractId) # 0
                       /\ InsertIndex(trace, contractsMap[i].contractId)
                             < InsertIndex(trace, contractsMap[j].contractId))

(* C20 witness: o1 and o2 created, o1 created again with another payload; o1
   is still first and holds the later payload *)
C20_Witness ==
    /\ Len(trace) = 3
    /\ trace[1] = CreateEv(1, "o1", "X")
    /\ trace[2] = CreateEv(1, "o2", "X")
    /\ trace[3] = CreateEv(1, "o1", "Y")
    /\ Len(contractsMap) = 2
    /\ contractsMap[1].contractId = "o1" /\ contractsMap[1].payload = "Y"
    /\ contractsMap[2].contractId = "o2"

(* C21: an archive event for an id absent from the view leaves the view
   unchanged; the same archive event applied a second time changes nothing
   more; and a create event on an empty view immediately followed by an archive
   event for the same id leaves the view empty. *)
C21_ArchiveIdempotent ==
    [][\A ev \in DataEvents(streamRef, ContractIds, Payloads) :
          (ev.type = "archive" /\ ApplyEvent(ev))
              => /\ ev.contractId \notin MapKeys(contractsMap)
                      => contractsMap' = contractsMap
                 /\ (Len(trace) >= 1 /\ trace[Len(trace)] = ev)
                      => contractsMap' = contractsMap
                 /\ (/\ Len(trace) >= 1
                     /\ trace[Len(trace)].type = "create"
                     /\ trace[Len(trace)].contractId = ev.contractId
                     /\ MapKeys(contractsMap) = {ev.contractId})
                      => contractsMap' = <<>>]_vars

(* C21 witness: o1 created on the empty view, archived, and archived again *)
C21_Witness ==
    /\ trace = <<CreateEv(1, "o1", "X"), ArchiveEv(1, "o1"), ArchiveEv(1, "o1")>>
    /\ contractsMap = <<>>

(* A setup attempt has failed and the next one has not started yet *)
BetweenAttempts ==
    /\ phase = "mounted"
    /\ Len(handles) >= 1
    /\ PendingHandles = {}
    /\ streamRef = NULL

(* Every openStream call made so far has failed or is still pending *)
AllFailed == \A h \in Handles : handles[h].status \in {"pending", "rejected"}

(* C22: when every openStream call fails and the subscription is never torn
   down, each failed attempt is followed by a new attempt (for every number of
   attempts the bound allows), and in every state between two attempts the
   subscription shows error non-null and connected = false. *)
C22_RetriesUnbounded ==
    /\ []((AllFailed /\ BetweenAttempts) => (error # "null" /\ ~connected))
    /\ []AllFailed
          => \A n \in 1..(MaxHandles - 1) :
                (Len(handles) = n) ~> (Len(handles) = n + 1)

(* The current handle is started, the last thing it emitted is state "live",
   and it is free to emit more *)
LastReportLive ==
    /\ streamRef # NULL
    /\ handles[streamRef].status = "started"
    /\ trace # <<>>
    /\ trace[Len(trace)] = StateEv(streamRef, "live")
    /\ Len(trace) < MaxTrace

(* C24: when the subscription is never torn down, an openStream call succeeds
   and the handle's last report is state "live" from some point on, then from
   some point on connected = true and loading = false hold for good, also when
   the hook's reload is called on the live subscription. *)
C24_EventuallyLive ==
    <>[]LastReportLive => <>[](connected /\ ~loading)

(* C25: in useMultiStreamQuery the published multiStream, whenever it is not
   null, is the handle the subscription holds in streamRef, is started and not
   closed, and was requested by the current run of the stream effect, i.e. for
   the current template mapping and options. *)
C25_PublishedStreamIsCurrent ==
    (hook = "multi" /\ multiStream # NULL)
        => /\ multiStream = streamRef
           /\ handles[multiStream].status = "started"
           /\ handles[multiStream].run = effectRun

(* C23: each call of triggerReload increases reloadTrigger by exactly 1 and
   reloadTrigger never decreases; after each call a mounted useQuery has issued
   a new query, and a mounted streaming hook has loading = true, error = null
   and its view reset (contractsMap empty, published multiStream null); while
   reloadTrigger is 0 the reload effect of the streaming hooks resets nothing. *)
C23_TriggerReloadReloadsAll ==
    /\ [][reloadTrigger' >= reloadTrigger]_vars
    /\ [][TriggerReload
             => /\ reloadTrigger' = reloadTrigger + 1
                /\ (phase = "mounted" /\ hook = "query")
                      => /\ Len(queries') = Len(queries) + 1
                         /\ queries'[Len(queries')].status = "pending"
                /\ (phase = "mounted" /\ hook \in Hooks)
                      => /\ loading'
                         /\ error' = "null"
                         /\ contractsMap' = <<>>
                         /\ multiStream' = NULL]_vars
    /\ [](reloadTrigger = 0 => ReloadEffect(Cur) = Cur)

(* C23 witness: triggerReload was called on a mounted useStreamQuery whose
   handle had delivered events; the handle is closed, a new one is requested,
   and the view is reset *)
C23_Witness ==
    /\ hook = "stream"
    /\ phase = "mounted"
    /\ reloadTrigger = 1
    /\ effectRun = 2
    /\ handles[1].status = "closed" /\ handles[1].delivered
    /\ handles[2].status = "pending"
    /\ contractsMap = <<>>
    /\ loading
    /\ error = "null"

(* C26: in useQuery, once at least two queries were started and all have
   resolved or rejected, contracts, error and loading reflect the query started
   last: its result with error = null if it succeeded, the empty list with
   error non-null if it failed, and loading = false; and loading is never false
   while a query is outstanding. *)
C26_LastStartedQueryWins ==
    (hook = "query" /\ phase = "mounted")
        => /\ (Len(queries) >= 2 /\ \A q \in 1..Len(queries) : queries[q].status # "pending")
                 => /\ ~loading
                    /\ IF queries[Len(queries)].status = "resolved"
                       THEN contracts = queries[Len(queries)].result /\ error = "null"
                       ELSE contracts = <<>> /\ error # "null"
           /\ (\E q \in 1..Len(queries) : queries[q].status = "pending") => loading

====
